---------------------------- MODULE Spec2Model ----------------------------
(***************************************************************************)
(* testbeam_analysis: the chunked event reader (data_aligned_at_events),   *)
(* the event range selection (get_data_in_event_range), the tracklet merge *)
(* (merge_cluster_data), the event alignment fix (fix_event_alignment) and *)
(* the index histograms (hist_1d_index, hist_2d_index, hist_3d_index).     *)
(*                                                                         *)
(* Conventions.  Table indices are 0-based as in the source; a TLA+        *)
(* sequence s holds the array element i at s[i + 1].  A table row is the   *)
(* record [row |-> i, event_number |-> e]: its index in the table stands   *)
(* for the columns other than event_number.  An optional argument is None  *)
(* or Some(v).  The source is Python 2 (np.float, integer use of "/"):     *)
(* there None compares below every number.                                 *)
(***************************************************************************)
EXTENDS Integers, Sequences, FiniteSets, TLC

VARIABLES gen, sel, mrg, fix, hst, ops, cor, crl

vars == <<gen, sel, mrg, fix, hst, ops, cor, crl>>

-----------------------------------------------------------------------------
(* Bounds of the model *)

MaxRows == 4

MaxEvent == 3

MaxMergeRows == 3

MaxFixRows == 2

\* the largest number of DUTs in a Tracklets table
MaxDuts == 11

\* the number of secondary DUTs of one table for which the alignment
\* routine reports a loss of correlation or shifts data
MaxDrifts == 1

\* the largest event offset the alignment routine applies
MaxOffset == 1

\* the largest extent of a histogram dimension
MaxBins == 2

\* the largest number of coordinate tuples of one histogram call
MaxTuples == 1

\* the largest length of an event-number array handed to a set operation
MaxArrayLen == 3

\* the largest table read with given start and stop indices
MaxIndexedRows == 3

\* the largest number of events of a stream handed to the drift corrector
MaxStream == 5

\* the largest n_bad_events
MaxBadEvents == 2

\* the largest number of hits of a hit file handed to correlate_hits
MaxHits == 2

-----------------------------------------------------------------------------
(* Python values *)

None == <<>>

Some(v) == <<v>>

Min(a, b) == IF a <= b THEN a ELSE b

\* number > optional, number < optional as Python 2 orders None
GtOpt(a, opt) == IF opt = None THEN TRUE ELSE a > opt[1]

LtOpt(a, opt) == IF opt = None THEN FALSE ELSE a < opt[1]

\* s[lo:hi] for 0 <= lo, 0 <= hi
PySlice(s, lo, hi) == SubSeq(s, lo + 1, Min(hi, Len(s)))

\* np.argmax of a boolean array: the first True, 0 when there is none
ArgmaxBool(b) ==
    IF \E j \in 1..Len(b) : b[j]
    THEN (CHOOSE j \in 1..Len(b) : b[j] /\ \A k \in 1..(j - 1) : ~b[k]) - 1
    ELSE 0

\* np.argmin of a boolean array: the first False, 0 when there is none
ArgminBool(b) ==
    IF \E j \in 1..Len(b) : ~b[j]
    THEN (CHOOSE j \in 1..Len(b) : ~b[j] /\ \A k \in 1..(j - 1) : b[k]) - 1
    ELSE 0

\* array['event_number']
EventColumn(array) == [j \in 1..Len(array) |-> array[j].event_number]

-----------------------------------------------------------------------------
(* pytables.Table: t is the event_number column of the table *)

\* table.read(start, stop): the rows start .. stop-1, cut at the table's end
Read(t, start, stop) ==
    LET hi == Min(stop, Len(t))
        lo == Min(start, hi)
    IN  [j \in 1..(hi - lo) |-> [row |-> lo + j - 1, event_number |-> t[lo + j]]]

\* table.get_where_list('event_number==v', start, stop): the indices, ascending
GetWhereList(t, v, start, stop) ==
    LET hits == SelectSeq(Read(t, start, stop), LAMBDA r : r.event_number = v)
    IN  [j \in 1..Len(hits) |-> hits[j].row]

-----------------------------------------------------------------------------
(* analysis_utils.get_data_in_event_range, assume_sorted=True *)

NoIntersection(array, event_start, event_stop) ==
    LET event_number == EventColumn(array)
        data_event_start == event_number[1]
        data_event_stop == event_number[Len(event_number)]
    IN  /\ event_start # None
        /\ event_stop # None
        /\ \/ data_event_stop < event_start[1]
           \/ data_event_start > event_stop[1]
           \/ event_start[1] = event_stop[1]

MinIndexData(array, event_start) ==
    LET event_number == EventColumn(array)
    IN  IF event_start = None
        THEN 0
        ELSE ArgminBool([j \in 1..Len(event_number) |-> event_number[j] < event_start[1]])

MaxIndexData(array, event_stop) ==
    LET event_number == EventColumn(array)
        max_index_data ==
            IF event_stop = None
            THEN Len(event_number)
            ELSE ArgmaxBool([j \in 1..Len(event_number) |-> event_number[j] >= event_stop[1]])
    IN  IF max_index_data = 0 \/ max_index_data > Len(event_number)
        THEN Len(event_number)
        ELSE max_index_data

GetDataInEventRange(array, event_start, event_stop) ==
    IF NoIntersection(array, event_start, event_stop)
    THEN PySlice(array, 0, 0)
    ELSE PySlice(array, MinIndexData(array, event_start), MaxIndexData(array, event_stop))

-----------------------------------------------------------------------------
(* analysis_utils.data_aligned_at_events: the generator's frame.  out is   *)
(* the sequence of the pairs yielded so far, warnings counts the calls of  *)
(* logging.warning.                                                        *)

GenInit(t, se, te, st, sp, su, cs) ==
    [table |-> t, start_event_number |-> se, stop_event_number |-> te,
     start |-> st, stop |-> sp, try_speedup |-> su, chunk_size |-> cs,
     start_index |-> 0, stop_index |-> 0,
     start_index_known |-> FALSE, stop_index_known |-> FALSE,
     pc |-> "start", out |-> <<>>, warnings |-> 0]

\* lines 220-243: the initialisation, the index lookup and the single read
GenBegin(g) ==
    LET start_index0 == IF g.start = None THEN 0 ELSE g.start[1]
        stop_index0 == IF g.stop = None THEN Len(g.table) ELSE g.stop[1]
        start_indeces ==
            IF g.try_speedup /\ g.start_event_number # None
            THEN GetWhereList(g.table, g.start_event_number[1], start_index0, stop_index0)
            ELSE <<>>
        start_index == IF Len(start_indeces) # 0 THEN start_indeces[1] ELSE start_index0
        stop_indeces ==
            IF g.try_speedup /\ g.stop_event_number # None
            THEN GetWhereList(g.table, g.stop_event_number[1], start_index, stop_index0)
            ELSE <<>>
        stop_index == IF Len(stop_indeces) # 0 THEN stop_indeces[1] ELSE stop_index0
        g1 == [g EXCEPT !.start_index = start_index, !.stop_index = stop_index,
                        !.start_index_known = Len(start_indeces) # 0,
                        !.stop_index_known = Len(stop_indeces) # 0]
    IN  IF g1.start_index_known /\ g1.stop_index_known
           /\ start_index + g.chunk_size >= stop_index
        THEN [g1 EXCEPT !.out = Append(g.out, [chunk |-> Read(g.table, start_index, stop_index),
                                               index |-> stop_index]),
                        !.pc = "done"]
        ELSE [g1 EXCEPT !.pc = "loop"]

\* line 246
SrcArray(g) == Read(g.table, g.start_index, g.start_index + g.chunk_size + 1)

\* line 253
LastEventStartIndex(src_array) ==
    LET event_number == EventColumn(src_array)
        last_event == event_number[Len(event_number)]
    IN  ArgmaxBool([j \in 1..Len(event_number) |-> event_number[j] = last_event])

\* a reader without the case of an event that fills the whole buffer
NRowsNoOversize(g, src_array) ==
    IF g.start_index + g.chunk_size > g.stop_index
    THEN Len(src_array)
    ELSE LastEventStartIndex(src_array)

\* lines 254-262
NRows(g, src_array) ==
    IF LastEventStartIndex(src_array) = 0
    THEN Len(src_array)
    ELSE IF g.start_index + g.chunk_size > g.stop_index
         THEN Len(src_array)
         ELSE LastEventStartIndex(src_array)

\* lines 254-257
BufferWarning(src_array) ==
    LastEventStartIndex(src_array) = 0 /\ Len(src_array) # 1

\* line 264
TooManyEventsRead(g, first_event, last_event) ==
    /\ g.start_event_number # None \/ g.stop_event_number # None
    /\ \/ GtOpt(last_event, g.stop_event_number)
       \/ LtOpt(first_event, g.start_event_number)

\* a reader that yields, with a filtered chunk, the index after the buffer
\* it filtered
YieldedIndexByNRows(g, src_array, nrows) ==
    LET first_event == src_array[1].event_number
        last_event == src_array[Len(src_array)].event_number
        selected_rows == GetDataInEventRange(PySlice(src_array, 0, nrows),
                                             g.start_event_number, g.stop_event_number)
    IN  IF TooManyEventsRead(g, first_event, last_event)
        THEN IF Len(selected_rows) # 0
             THEN <<[chunk |-> selected_rows, index |-> g.start_index + nrows]>>
             ELSE <<>>
        ELSE <<[chunk |-> PySlice(src_array, 0, nrows), index |-> g.start_index + nrows]>>

\* lines 264-269: the pairs yielded by one pass of the loop
Yielded(g, src_array, nrows) ==
    LET first_event == src_array[1].event_number
        last_event == src_array[Len(src_array)].event_number
        selected_rows == GetDataInEventRange(PySlice(src_array, 0, nrows),
                                             g.start_event_number, g.stop_event_number)
    IN  IF TooManyEventsRead(g, first_event, last_event)
        THEN IF Len(selected_rows) # 0
             THEN <<[chunk |-> selected_rows, index |-> g.start_index + Len(selected_rows)]>>
             ELSE <<>>
        ELSE <<[chunk |-> PySlice(src_array, 0, nrows), index |-> g.start_index + nrows]>>

\* a reader that advances by the chunk size instead of the rows it delivered
NextStartIndexByChunk(g, nrows) == g.start_index + g.chunk_size

\* a reader that continues after the whole buffer although it trimmed it
NextStartIndexPastBuffer(g, nrows) == g.start_index + g.chunk_size + 1

\* line 272
NextStartIndex(g, nrows) == g.start_index + nrows

\* lines 245-272: one pass of the while loop, entered with start_index < stop_index
GenLoop(g) ==
    LET src_array == SrcArray(g)
        last_event == src_array[Len(src_array)].event_number
        nrows == NRows(g, src_array)
    IN  IF g.start_event_number # None /\ last_event < g.start_event_number[1]
        THEN [g EXCEPT !.start_index = g.start_index + Len(src_array)]
        ELSE [g EXCEPT !.out = g.out \o Yielded(g, src_array, nrows),
                       !.warnings = IF BufferWarning(src_array) THEN g.warnings + 1 ELSE g.warnings,
                       !.pc = IF g.stop_event_number # None /\ last_event > g.stop_event_number[1]
                              THEN "done" ELSE "loop",
                       !.start_index = IF g.stop_event_number # None
                                          /\ last_event > g.stop_event_number[1]
                                       THEN g.start_index
                                       ELSE NextStartIndex(g, nrows)]

\* one step of the generator
GenStep(g) ==
    IF g.pc = "start" THEN GenBegin(g)
    ELSE IF g.pc = "loop" /\ g.start_index < g.stop_index THEN GenLoop(g)
    ELSE [g EXCEPT !.pc = "done"]

\* the generator run to its end: what a for loop over it sees
RECURSIVE GenRun(_)
GenRun(g) == IF g.pc = "done" THEN g ELSE GenRun(GenStep(g))

\* np.concatenate of the yielded chunks
RECURSIVE ConcatChunks(_)
ConcatChunks(out) ==
    IF out = <<>> THEN <<>> ELSE out[1].chunk \o ConcatChunks(Tail(out))

-----------------------------------------------------------------------------
(* Inputs *)

Idle == [pc |-> "idle"]

SortedTables ==
    {t \in UNION {[1..n -> 1..MaxEvent] : n \in 0..MaxRows} :
        \A i \in 1..(Len(t) - 1) : t[i] <= t[i + 1]}

EventBounds == {None} \cup {Some(e) : e \in 0..(MaxEvent + 1)}

ChunkSizes == 1..(MaxRows + 1)

-----------------------------------------------------------------------------
(* SpecReader: one iteration over data_aligned_at_events(table, ...) *)

InitReader ==
    /\ \E t \in SortedTables, se \in EventBounds, te \in EventBounds,
          su \in BOOLEAN, cs \in ChunkSizes :
          gen = GenInit(t, se, te, None, None, su, cs)
    /\ sel = Idle
    /\ mrg = Idle
    /\ fix = Idle
    /\ hst = Idle
    /\ ops = Idle
    /\ cor = Idle
    /\ crl = Idle

ReaderBegin ==
    /\ gen.pc = "start"
    /\ gen' = GenBegin(gen)
    /\ UNCHANGED <<sel, mrg, fix, hst, ops, cor, crl>>

ReaderLoop ==
    /\ gen.pc = "loop"
    /\ gen.start_index < gen.stop_index
    /\ gen' = GenLoop(gen)
    /\ UNCHANGED <<sel, mrg, fix, hst, ops, cor, crl>>

ReaderExhausted ==
    /\ gen.pc = "loop"
    /\ ~(gen.start_index < gen.stop_index)
    /\ gen' = [gen EXCEPT !.pc = "done"]
    /\ UNCHANGED <<sel, mrg, fix, hst, ops, cor, crl>>

NextReader == ReaderBegin \/ ReaderLoop \/ ReaderExhausted

SpecReader == InitReader /\ [][NextReader]_vars

Spec == SpecReader

-----------------------------------------------------------------------------
(* Claims about data_aligned_at_events *)

\* the rows of table t with se <= event_number < te, in table order
RowsInEventRange(t, se, te) ==
    SelectSeq(Read(t, 0, Len(t)),
              LAMBDA r : /\ se = None \/ r.event_number >= se[1]
                         /\ te = None \/ r.event_number < te[1])

ReaderDone == gen.pc = "done"

BothBounds == gen.start_event_number # None /\ gen.stop_event_number # None

NoBounds == gen.start_event_number = None /\ gen.stop_event_number = None

NoIndices == gen.start = None /\ gen.stop = None

\* the number of rows of event e in table t
RunLength(t, e) == Cardinality({i \in 1..Len(t) : t[i] = e})

\* C1: with both event bounds given, the concatenation of the yielded chunks
\* is exactly the rows with start_event_number <= event_number <
\* stop_event_number, in table order, none missing and none repeated.
C1_ExactEventRange ==
    (ReaderDone /\ BothBounds /\ NoIndices)
        => ConcatChunks(gen.out)
             = RowsInEventRange(gen.table, gen.start_event_number, gen.stop_event_number)

\* C2: of two consecutive non-empty chunks the earlier one ends at an event
\* number strictly below the first event number of the later one.
C2_NoEventSplit ==
    gen.pc \in {"loop", "done"} =>
        \A i \in 1..(Len(gen.out) - 1) :
            LET a == gen.out[i].chunk
                b == gen.out[i + 1].chunk
            IN  (Len(a) # 0 /\ Len(b) # 0)
                    => a[Len(a)].event_number < b[1].event_number

\* C3: without event bounds and without start/stop indices the concatenation
\* of the yielded chunks is the whole table, every row once and in place.
C3_WholeTable ==
    (ReaderDone /\ NoBounds /\ NoIndices)
        => ConcatChunks(gen.out) = Read(gen.table, 0, Len(gen.table))

C3_Witness ==
    /\ ReaderDone /\ NoBounds /\ NoIndices
    /\ Len(gen.table) = MaxRows
    /\ gen.chunk_size < Len(gen.table)
    /\ Len(gen.out) >= 2

\* C4: every event whose run of rows is longer than chunk_size is yielded
\* whole in one chunk, and a warning is logged.
C4_OversizedEventIntact ==
    (ReaderDone /\ NoBounds /\ NoIndices) =>
        \A e \in 1..MaxEvent :
            RunLength(gen.table, e) > gen.chunk_size =>
                /\ gen.warnings > 0
                /\ \E i \in 1..Len(gen.out) :
                      \A r \in 1..Len(gen.table) :
                          gen.table[r] = e =>
                              \E j \in 1..Len(gen.out[i].chunk) :
                                  gen.out[i].chunk[j].row = r - 1

\* C5: try_speedup=True and try_speedup=False deliver the same rows.
C5_SpeedupEquivalent ==
    (ReaderDone /\ BothBounds /\ NoIndices) =>
        ConcatChunks(gen.out)
          = ConcatChunks(GenRun(GenInit(gen.table, gen.start_event_number,
                                        gen.stop_event_number, gen.start, gen.stop,
                                        ~gen.try_speedup, gen.chunk_size)).out)


-----------------------------------------------------------------------------
(* SpecRange: one call of get_data_in_event_range(array, event_start,      *)
(* event_stop) on a non-empty sorted array                                 *)

InitRange ==
    /\ \E t \in SortedTables \ {<<>>}, event_start \in EventBounds, event_stop \in EventBounds :
          sel = [pc |-> "call", array |-> Read(t, 0, Len(t)),
                 event_start |-> event_start, event_stop |-> event_stop]
    /\ gen = Idle
    /\ mrg = Idle
    /\ fix = Idle
    /\ hst = Idle
    /\ ops = Idle
    /\ cor = Idle
    /\ crl = Idle

RangeCall ==
    /\ sel.pc = "call"
    /\ sel' = [pc |-> "returned", array |-> sel.array,
               event_start |-> sel.event_start, event_stop |-> sel.event_stop,
               result |-> GetDataInEventRange(sel.array, sel.event_start, sel.event_stop)]
    /\ UNCHANGED <<gen, mrg, fix, hst, ops, cor, crl>>

NextRange == RangeCall

SpecRange == InitRange /\ [][NextRange]_vars

\* C9: the call returns exactly the rows with event_start <= event_number <
\* event_stop, in order, a missing bound being no bound on that side.
C9_RowsInRange ==
    sel.pc = "returned" =>
        sel.result = SelectSeq(sel.array,
                               LAMBDA r : /\ sel.event_start = None
                                             \/ r.event_number >= sel.event_start[1]
                                          /\ sel.event_stop = None
                                             \/ r.event_number < sel.event_stop[1])


-----------------------------------------------------------------------------
(* The kernels of analysis_functions that merge_cluster_data calls, as the *)
(* specification describes them (sections 4.1 and 4.3)                     *)

RECURSIVE SortedSeqOfSet(_)
SortedSeqOfSet(S) ==
    IF S = {} THEN <<>>
    ELSE LET m == CHOOSE x \in S : \A y \in S : x <= y
         IN  <<m>> \o SortedSeqOfSet(S \ {m})

\* the sorted set of the event numbers that are in either array
GetMaxEventsInBothArrays(events_one, events_two) ==
    SortedSeqOfSet({events_one[i] : i \in 1..Len(events_one)}
                   \cup {events_two[i] : i \in 1..Len(events_two)})

\* row i: the cluster of event events[i] (its table index + 1 stands for its
\* fields, which are never 0), 0 when the cluster array has no such event
MapCluster(events, cluster) ==
    [i \in 1..Len(events) |->
        IF \E j \in 1..Len(cluster) : cluster[j].event_number = events[i]
        THEN cluster[CHOOSE j \in 1..Len(cluster) :
                        /\ cluster[j].event_number = events[i]
                        /\ \A k \in 1..(j - 1) : cluster[k].event_number # events[i]].row + 1
        ELSE 0]

-----------------------------------------------------------------------------
(* dut_alignment.merge_cluster_data.  gen is the generator over the        *)
(* clusters of DUT0 (line 283); mrg holds the other cluster tables, the    *)
(* loop indices and the Tracklets table written so far.  A Tracklets row   *)
(* is [event_number, cluster_dut]: cluster_dut[d + 1] tells which cluster  *)
(* of DUT d fills column_dut_d, row_dut_d and charge_dut_d (0: none).      *)

\* lines 290 and 305: the pairs the reader of DUT dut_index yields
OtherDutChunks(m, dut_index, start, actual_event_numbers) ==
    GenRun(GenInit(m.cluster_files[dut_index],
                   Some(m.actual_start_event_number),
                   Some(actual_event_numbers[Len(actual_event_numbers)] + 1),
                   Some(start), None, TRUE, m.chunk_size)).out

\* the loop target start_indices[dut_index] after the for loop
LoopIndexAfter(start, out) == IF out = <<>> THEN start ELSE out[Len(out)].index

\* line 291, over the chunks of one DUT
RECURSIVE UnionChunks(_, _)
UnionChunks(common_event_numbers, out) ==
    IF out = <<>> THEN common_event_numbers
    ELSE UnionChunks(GetMaxEventsInBothArrays(common_event_numbers,
                                              EventColumn(out[1].chunk)),
                     Tail(out))

\* lines 287-291: common_event_numbers after the DUTs 1 .. dut_index
RECURSIVE CommonEventNumbers(_, _, _)
CommonEventNumbers(m, actual_event_numbers, dut_index) ==
    IF dut_index = 0 THEN actual_event_numbers
    ELSE UnionChunks(CommonEventNumbers(m, actual_event_numbers, dut_index - 1),
                     OtherDutChunks(m, dut_index, m.start_indices[dut_index],
                                    actual_event_numbers))

\* lines 306-315, over the chunks of one DUT: only real hits are written
RECURSIVE MapChunks(_, _, _)
MapChunks(column, common_event_numbers, out) ==
    IF out = <<>> THEN column
    ELSE LET actual_cluster == MapCluster(common_event_numbers, out[1].chunk)
         IN  MapChunks([i \in 1..Len(common_event_numbers) |->
                           IF actual_cluster[i] # 0 THEN actual_cluster[i] ELSE column[i]],
                       common_event_numbers, Tail(out))

\* lines 292-315: the rows built for one chunk of DUT0
TrackletsArray(m, cluster_dut_0) ==
    LET actual_event_numbers == EventColumn(cluster_dut_0)
        common == CommonEventNumbers(m, actual_event_numbers, Len(m.cluster_files))
        zeros == [i \in 1..Len(common) |-> 0]
        dut0 == MapChunks(zeros, common, <<[chunk |-> cluster_dut_0, index |-> 0]>>)
        other(d) == MapChunks(zeros, common,
                              OtherDutChunks(m, d, m.start_indices_2[d], actual_event_numbers))
    IN  [i \in 1..Len(common) |->
            [event_number |-> common[i],
             cluster_dut |-> [k \in 1..(Len(m.cluster_files) + 1) |->
                                 IF k = 1 THEN dut0[i] ELSE other(k - 1)[i]]]]

\* lines 284-320: the body of the loop over the chunks of DUT0
MergeBody(m, cluster_dut_0) ==
    LET actual_event_numbers == EventColumn(cluster_dut_0)
        tracklets_array == TrackletsArray(m, cluster_dut_0)
    IN  [m EXCEPT
            !.start_indices = [d \in 1..Len(m.cluster_files) |->
                LoopIndexAfter(m.start_indices[d],
                               OtherDutChunks(m, d, m.start_indices[d], actual_event_numbers))],
            !.start_indices_2 = [d \in 1..Len(m.cluster_files) |->
                LoopIndexAfter(m.start_indices_2[d],
                               OtherDutChunks(m, d, m.start_indices_2[d], actual_event_numbers))],
            !.tracklets = m.tracklets \o tracklets_array,
            !.actual_start_event_number =
                tracklets_array[Len(tracklets_array)].event_number + 1]

\* the generator resumed until it yields again or ends
RECURSIVE GenResume(_)
GenResume(g) ==
    LET g2 == GenStep(g)
    IN  IF g2.pc = "done" \/ Len(g2.out) > Len(g.out) THEN g2 ELSE GenResume(g2)

ClusterFileTables ==
    {t \in SortedTables : Len(t) <= MaxMergeRows}

\* the cluster files after the first: none or one
OtherClusterFiles ==
    {<<>>} \cup {<<t>> : t \in ClusterFileTables}

InitMerge ==
    /\ \E t0 \in ClusterFileTables, others \in OtherClusterFiles,
          cs \in 1..(MaxMergeRows + 1) :
          /\ gen = GenInit(t0, None, None, None, None, TRUE, cs)
          /\ fix = Idle
          /\ hst = Idle
          /\ ops = Idle
          /\ cor = Idle
          /\ crl = Idle
          /\ mrg = [pc |-> "merging", cluster_files |-> others, chunk_size |-> cs,
                    start_indices |-> [d \in 1..Len(others) |-> 0],
                    start_indices_2 |-> [d \in 1..Len(others) |-> 0],
                    actual_start_event_number |-> 0,
                    tracklets |-> <<>>]
    /\ sel = Idle

\* line 283 yields a chunk of DUT0, lines 284-320 merge it
MergeChunk ==
    /\ mrg.pc = "merging"
    /\ Len(GenResume(gen).out) > Len(gen.out)
    /\ gen' = GenResume(gen)
    /\ mrg' = MergeBody(mrg, gen'.out[Len(gen'.out)].chunk)
    /\ UNCHANGED <<sel, fix, hst, ops, cor, crl>>

\* line 283: the reader of DUT0 is exhausted; line 321
MergeFinish ==
    /\ mrg.pc = "merging"
    /\ Len(GenResume(gen).out) = Len(gen.out)
    /\ gen' = GenResume(gen)
    /\ mrg' = [mrg EXCEPT !.pc = "done"]
    /\ UNCHANGED <<sel, fix, hst, ops, cor, crl>>

NextMerge == MergeChunk \/ MergeFinish

SpecMerge == InitMerge /\ [][NextMerge]_vars

\* C6: after all chunks of DUT0 the Tracklets table has at most one row per
\* event number and strictly increasing event numbers, also across chunks.
C6_OneRowPerEvent ==
    mrg.pc = "done" =>
        \A i \in 1..(Len(mrg.tracklets) - 1) :
            mrg.tracklets[i].event_number < mrg.tracklets[i + 1].event_number


-----------------------------------------------------------------------------
(* Column names of the Tracklets table.  A name is [field, index]: index   *)
(* holds the decimal digits that '%d' writes after the field, <<>> for a   *)
(* field without DUT index.                                                *)

RECURSIVE DecimalDigits(_)
DecimalDigits(k) ==
    IF k < 10 THEN <<k>> ELSE Append(DecimalDigits(k \div 10), k % 10)

\* int() of a string of decimal digits
RECURSIVE IntOfDigits(_)
IntOfDigits(d) ==
    IF Len(d) = 0 THEN 0
    ELSE 10 * IntOfDigits(SubSeq(d, 1, Len(d) - 1)) + d[Len(d)]

\* field + '_%d' % index
DutColumn(field, index) == [field |-> field, index |-> DecimalDigits(index)]

PlainColumn(field) == [field |-> field, index |-> <<>>]

\* the description of merge_cluster_data, in its order
DtypeNames(n_duts) ==
    <<PlainColumn("event_number")>>
    \o [k \in 1..n_duts |-> DutColumn("column_dut", k - 1)]
    \o [k \in 1..n_duts |-> DutColumn("row_dut", k - 1)]
    \o [k \in 1..n_duts |-> DutColumn("charge_dut", k - 1)]
    \o <<PlainColumn("track_quality"), PlainColumn("n_tracks")>>

\* line 370: 'column_dut' in table_column and 'dut_0' not in table_column
IsSecondaryColumn(table_column) ==
    table_column.field = "column_dut" /\ table_column.index[1] # 0

\* lines 372, 373: field + table_column[-1], the last character of the name
WithLastChar(field, table_column) ==
    [field |-> field, index |-> <<table_column.index[Len(table_column.index)]>>]

\* line 390: int(table_column[-1])
LastCharInt(table_column) == IntOfDigits(<<table_column.index[Len(table_column.index)]>>)

-----------------------------------------------------------------------------
(* Values *)

\* line 367
TrackQualityBase == 24

\* np.uint32, the type of track_quality
TrackQualityBits == 32

\* np.uint16, the type of the charge handed to the alignment routine
Uint16Range == 65536

\* charge as np.ascontiguousarray(charge, dtype=np.uint16) converts it
ToUint16(array) == [i \in 1..Len(array) |-> array[i] % Uint16Range]

\* track_quality |= (1 << bit) in 32 bits; a quality word is the set of its
\* set bits
OrBit(quality, bit) == IF bit < TrackQualityBits THEN quality \cup {bit} ELSE quality

\* the input Tracklets table: every cell of a DUT column has a value of its own
CellValue(name, i) ==
    IF name.field = "event_number" THEN 10 * i
    ELSE IF name.field = "n_tracks" THEN 1
    ELSE IF name.field = "track_quality" THEN {}
    ELSE IF name.field = "column_dut" THEN 1000 + 10 * IntOfDigits(name.index) + i
    ELSE IF name.field = "row_dut" THEN 2000 + 10 * IntOfDigits(name.index) + i
    ELSE 3000 + 10 * IntOfDigits(name.index) + i

NamesOf(n_duts) == {DtypeNames(n_duts)[j] : j \in 1..Len(DtypeNames(n_duts))}

Tracklets(n_duts, n_rows) ==
    [name \in NamesOf(n_duts) |-> [i \in 1..n_rows |-> CellValue(name, i)]]

\* np.zeros_like(particles)
ZerosLike(particles, n_rows) ==
    [name \in DOMAIN particles |->
        [i \in 1..n_rows |-> IF name.field = "track_quality" THEN {} ELSE 0]]

-----------------------------------------------------------------------------
(* analysis_functions.fix_event_alignment, as the specification describes  *)
(* it (section 4.5): it fills correlated and, from the point of loss on,   *)
(* shifts column, row and charge by the offset it found, in place.  What   *)
(* it finds is an input here: outcome = [correlated, loss, offset], loss   *)
(* the first shifted row (n_rows + 1: none).                               *)

ShiftFrom(array, loss, offset) ==
    [i \in 1..Len(array) |->
        IF i < loss THEN array[i]
        ELSE IF i + offset <= Len(array) THEN array[i + offset] ELSE 0]

KernelOutcomes(n_rows) ==
    {[correlated |-> c, loss |-> l, offset |-> o] :
        c \in [1..n_rows -> {0, 1}], l \in 1..(n_rows + 1), o \in 1..MaxOffset}

NoDrift(outcome, n_rows) ==
    /\ outcome.loss = n_rows + 1
    /\ \A i \in 1..n_rows : outcome.correlated[i] = 1

\* the count of shifted rows
NFixes(outcome, n_rows) == n_rows + 1 - outcome.loss

-----------------------------------------------------------------------------
(* analysis_utils.fix_event_alignment: the arrays after the call.  column  *)
(* and row are contiguous float arrays, which np.ascontiguousarray hands   *)
(* on as they are: the routine works on the caller's arrays.  charge is    *)
(* converted to uint16, which makes a new array: the routine works on the  *)
(* copy and the caller's charge stays as it was.                           *)

\* lines 275-285: column, row, charge are the caller's arrays after the
\* call, work_* the arrays the routine worked on
UtilsFixEventAlignment(column, row, charge, outcome) ==
    [column |-> ShiftFrom(column, outcome.loss, outcome.offset),
     row |-> ShiftFrom(row, outcome.loss, outcome.offset),
     charge |-> charge,
     work_column |-> ShiftFrom(column, outcome.loss, outcome.offset),
     work_row |-> ShiftFrom(row, outcome.loss, outcome.offset),
     work_charge |-> ShiftFrom(ToUint16(charge), outcome.loss, outcome.offset),
     correlated |-> outcome.correlated,
     n_fixes |-> NFixes(outcome, Len(column))]

-----------------------------------------------------------------------------
(* dut_alignment.fix_event_alignment.  fix.calls keeps, for every call of  *)
(* the routine, the column it was made for, the names of the row and       *)
(* charge columns handed to it and what it returned.                       *)

DutCounts == {1, 2, 3, MaxDuts}

InitFix ==
    /\ \E n_duts \in DutCounts, n_rows \in 1..MaxFixRows :
          fix = [pc |-> "start", n_rows |-> n_rows,
                 tracklets |-> Tracklets(n_duts, n_rows),
                 names |-> DtypeNames(n_duts)]
    /\ gen = Idle
    /\ sel = Idle
    /\ mrg = Idle
    /\ hst = Idle
    /\ ops = Idle
    /\ cor = Idle
    /\ crl = Idle

\* lines 358-367
FixOpen ==
    /\ fix.pc = "start"
    /\ fix' = [pc |-> "loop", n_rows |-> fix.n_rows,
               tracklets |-> fix.tracklets,
               particles |-> fix.tracklets,
               particles_corrected |->
                   [ZerosLike(fix.tracklets, fix.n_rows) EXCEPT
                       ![PlainColumn("track_quality")] =
                           [i \in 1..fix.n_rows |-> {TrackQualityBase}]],
               pending |-> SelectSeq(fix.names, IsSecondaryColumn),
               calls |-> <<>>, drifts |-> 0]
    /\ UNCHANGED <<gen, sel, mrg, hst, ops, cor, crl>>

\* lines 378-390: particles_corrected after the call for table_column
Corrected(f, table_column, res) ==
    [name \in DOMAIN f.particles_corrected |->
        IF name = WithLastChar("charge_dut", table_column) THEN res.charge
        ELSE IF name = WithLastChar("row_dut", table_column) THEN res.row
        ELSE IF name = table_column THEN res.column
        ELSE IF name = PlainColumn("n_tracks") THEN f.particles[name]
        ELSE IF name \in {PlainColumn("event_number"), DutColumn("column_dut", 0),
                          DutColumn("row_dut", 0), DutColumn("charge_dut", 0)}
             THEN f.particles[name]
        ELSE IF name = PlainColumn("track_quality")
             THEN [i \in 1..f.n_rows |->
                      IF res.correlated[i] = 1
                      THEN OrBit(f.particles_corrected[name][i],
                                 TrackQualityBase + LastCharInt(table_column))
                      ELSE f.particles_corrected[name][i]]
        ELSE f.particles_corrected[name]]

\* lines 369-390: the loop body for the next secondary column
FixDut ==
    /\ fix.pc = "loop"
    /\ Len(fix.pending) > 0
    /\ \E outcome \in KernelOutcomes(fix.n_rows) :
          LET table_column == fix.pending[1]
              res == UtilsFixEventAlignment(
                         fix.particles[table_column],
                         fix.particles[WithLastChar("row_dut", table_column)],
                         fix.particles[WithLastChar("charge_dut", table_column)],
                         outcome)
          IN  /\ NoDrift(outcome, fix.n_rows) \/ fix.drifts < MaxDrifts
              /\ fix' = [fix EXCEPT
                            !.pending = Tail(fix.pending),
                            !.particles_corrected = Corrected(fix, table_column, res),
                            !.drifts = IF NoDrift(outcome, fix.n_rows)
                                       THEN fix.drifts ELSE fix.drifts + 1,
                            !.calls = Append(fix.calls,
                                [table_column |-> table_column,
                                 row_from |-> WithLastChar("row_dut", table_column),
                                 charge_from |-> WithLastChar("charge_dut", table_column),
                                 res |-> res])]
    /\ UNCHANGED <<gen, sel, mrg, hst, ops, cor, crl>>

\* lines 393-401
FixWrite ==
    /\ fix.pc = "loop"
    /\ Len(fix.pending) = 0
    /\ fix' = [pc |-> "written", n_rows |-> fix.n_rows, tracklets |-> fix.tracklets,
               calls |-> fix.calls, correction_out |-> fix.particles_corrected]
    /\ UNCHANGED <<gen, sel, mrg, hst, ops, cor, crl>>

NextFix == FixOpen \/ FixDut \/ FixWrite

SpecFix == InitFix /\ [][NextFix]_vars

\* the DUT a call was made for
DutOf(call) == IntOfDigits(call.table_column.index)

\* C7: the written table holds, for every secondary DUT and every row, the
\* column, row and charge values as the alignment routine left them in its
\* working arrays.
C7_CorrectedValuesWritten ==
    fix.pc = "written" =>
        \A c \in 1..Len(fix.calls) :
            LET call == fix.calls[c]
            IN  /\ fix.correction_out[DutColumn("column_dut", DutOf(call))]
                     = call.res.work_column
                /\ fix.correction_out[DutColumn("row_dut", DutOf(call))]
                     = call.res.work_row
                /\ fix.correction_out[DutColumn("charge_dut", DutOf(call))]
                     = call.res.work_charge

\* C8: in the written table bit 24 is set on every row and, for every
\* secondary DUT k, bit 24 + k is set on row i iff the routine returned
\* correlated[i] = 1 for DUT k, which was checked against its own row_dut_k
\* and charge_dut_k columns.
C8_QualityBits ==
    fix.pc = "written" =>
        /\ \A i \in 1..fix.n_rows :
              TrackQualityBase \in fix.correction_out[PlainColumn("track_quality")][i]
        /\ \A c \in 1..Len(fix.calls) :
              LET call == fix.calls[c]
              IN  /\ call.row_from = DutColumn("row_dut", DutOf(call))
                  /\ call.charge_from = DutColumn("charge_dut", DutOf(call))
                  /\ \A i \in 1..fix.n_rows :
                        (TrackQualityBase + DutOf(call))
                            \in fix.correction_out[PlainColumn("track_quality")][i]
                        <=> call.res.correlated[i] = 1

-----------------------------------------------------------------------------
(* analysis_utils.hist_1d_index, hist_2d_index, hist_3d_index.  hst holds  *)
(* the shape, the flat result array (C order, as ravel and reshape lay it  *)
(* out), the tuple counted last as the caller gave it and the result       *)
(* before that tuple.  The loops of analysis_functions.hist_1d, hist_2d    *)
(* and hist_3d are as the specification describes the source (sections     *)
(* 4.4 and 9): raw indexing into the result buffer, no bounds check.  A    *)
(* write outside the buffer is undefined: the process dies, or it goes on  *)
(* with memory other than the result changed.                              *)

\* A coordinate of the caller is an integer wider than 32 bits, written
\* hi * 2^32 + lo with lo a signed 32-bit word.
Wide(hi, lo) == [hi |-> hi, lo |-> lo]

\* x.astype(np.int32) keeps the low word
ToInt32(v) == v.lo

IsNegative(v) == v.hi < 0 \/ (v.hi = 0 /\ v.lo < 0)

\* v >= n, for 0 <= n < 2^31
AtLeast(v, n) == v.hi > 0 \/ (v.hi = 0 /\ v.lo >= n)

CoordValues == {Wide(0, lo) : lo \in {-1} \cup 0..MaxBins} \cup {Wide(1, 0)}

HistShapes == UNION {[1..n -> 1..MaxBins] : n \in 1..3}

RECURSIVE Product(_)
Product(shape) == IF Len(shape) = 0 THEN 1 ELSE shape[1] * Product(Tail(shape))

\* the index into the raveled result of the bin the kernel addresses
RECURSIVE FlatIndex(_, _)
FlatIndex(coords, shape) ==
    IF Len(coords) = 0 THEN 0
    ELSE coords[1] * Product(Tail(shape)) + FlatIndex(Tail(coords), Tail(shape))

\* result[flat] += 1
Increment(result, flat) == [result EXCEPT ![flat + 1] = result[flat + 1] + 1]

\* a wrapper that rejects only a shape that is too short
HistEnterShortOnly(h, dims) ==
    IF Len(h.shape) < dims
    THEN [pc |-> "NotImplementedError", shape |-> h.shape, dims |-> dims]
    ELSE [pc |-> "kernel", shape |-> h.shape, dims |-> dims,
          result |-> [b \in 1..Product(h.shape) |-> 0],
          counted |-> 0, last |-> <<>>, before |-> <<>>, memory_corrupted |-> FALSE]

\* lines 76-81, 103-109, 132-138: the shape check and the empty result
HistEnter(h, dims) ==
    IF Len(h.shape) # dims
    THEN [pc |-> "NotImplementedError", shape |-> h.shape, dims |-> dims]
    ELSE [pc |-> "kernel", shape |-> h.shape, dims |-> dims,
          result |-> [b \in 1..Product(h.shape) |-> 0],
          counted |-> 0, last |-> <<>>, before |-> <<>>, memory_corrupted |-> FALSE]

\* lines 80-82, 107-110, 135-139: the conversion and one pass of the kernel
\* loop, for a tuple whose flat index is inside the buffer
HistCounted(h, tuple) ==
    LET coords == [d \in 1..h.dims |-> ToInt32(tuple[d])]
    IN  [h EXCEPT !.result = Increment(h.result, FlatIndex(coords, h.shape)),
                  !.counted = h.counted + 1,
                  !.last = tuple, !.before = h.result]

InsideBuffer(h, tuple) ==
    LET flat == FlatIndex([d \in 1..h.dims |-> ToInt32(tuple[d])], h.shape)
    IN  0 <= flat /\ flat < Product(h.shape)

InitHist ==
    /\ \E shape \in HistShapes : hst = [pc |-> "call", shape |-> shape]
    /\ gen = Idle
    /\ sel = Idle
    /\ mrg = Idle
    /\ fix = Idle
    /\ ops = Idle
    /\ cor = Idle
    /\ crl = Idle

Hist1dIndex ==
    /\ hst.pc = "call"
    /\ hst' = HistEnter(hst, 1)
    /\ UNCHANGED <<gen, sel, mrg, fix, ops, cor, crl>>

Hist2dIndex ==
    /\ hst.pc = "call"
    /\ hst' = HistEnter(hst, 2)
    /\ UNCHANGED <<gen, sel, mrg, fix, ops, cor, crl>>

Hist3dIndex ==
    /\ hst.pc = "call"
    /\ hst' = HistEnter(hst, 3)
    /\ UNCHANGED <<gen, sel, mrg, fix, ops, cor, crl>>

\* the next coordinate tuple of the input arrays is counted
HistCount ==
    /\ hst.pc = "kernel"
    /\ hst.counted < MaxTuples
    /\ \E tuple \in [1..hst.dims -> CoordValues] :
          /\ InsideBuffer(hst, tuple)
          /\ hst' = HistCounted(hst, tuple)
    /\ UNCHANGED <<gen, sel, mrg, fix, ops, cor, crl>>

\* the next coordinate tuple addresses memory outside the result buffer
HistCountOutside ==
    /\ hst.pc = "kernel"
    /\ hst.counted < MaxTuples
    /\ \E tuple \in [1..hst.dims -> CoordValues] :
          /\ ~InsideBuffer(hst, tuple)
          /\ \/ hst' = [hst EXCEPT !.pc = "crashed", !.counted = hst.counted + 1,
                                   !.last = tuple, !.before = hst.result]
             \/ hst' = [hst EXCEPT !.memory_corrupted = TRUE,
                                   !.counted = hst.counted + 1,
                                   !.last = tuple, !.before = hst.result]
    /\ UNCHANGED <<gen, sel, mrg, fix, ops, cor, crl>>

\* lines 83, 111, 140: the result is returned in the shape asked for
HistReturn ==
    /\ hst.pc = "kernel"
    /\ hst' = [hst EXCEPT !.pc = "returned"]
    /\ UNCHANGED <<gen, sel, mrg, fix, ops, cor, crl>>

NextHist ==
    \/ Hist1dIndex \/ Hist2dIndex \/ Hist3dIndex
    \/ HistCount \/ HistCountOutside \/ HistReturn

SpecHist == InitHist /\ [][NextHist]_vars

\* a component of the tuple is outside [0, shape[d])
OutOfRange(tuple, shape) ==
    \E d \in 1..Len(shape) : IsNegative(tuple[d]) \/ AtLeast(tuple[d], shape[d])

\* C10: a tuple with a component outside [0, shape[d]) ends the call with an
\* out-of-range error and increments no bin; every other tuple is counted
\* in the bin its coordinates address and in no other.
C10_OutOfRangeRejected ==
    (hst.pc \in {"kernel", "returned", "crashed"} /\ hst.counted > 0) =>
        IF OutOfRange(hst.last, hst.shape)
        THEN hst.pc = "out_of_range_error" /\ hst.result = hst.before
        ELSE hst.result = Increment(hst.before,
                    FlatIndex([d \in 1..hst.dims |-> hst.last[d].lo], hst.shape))


\* one of the three functions has been entered
HistEntered == hst.pc \notin {"idle", "call"}

\* C11: a call with a shape whose length is not the dimension of the function
\* ends with NotImplementedError, and that call has no result array and has
\* counted nothing; every call that has a result has a shape of the right
\* length.
C11_ShapeLengthChecked ==
    HistEntered =>
        /\ (Len(hst.shape) # hst.dims) <=> (hst.pc = "NotImplementedError")
        /\ hst.pc = "NotImplementedError" =>
              DOMAIN hst = {"pc", "shape", "dims"}

C11_Witness ==
    /\ hst.pc = "NotImplementedError"
    /\ hst.dims = 2
    /\ Len(hst.shape) = 3


-----------------------------------------------------------------------------
(* analysis_utils.in1d_events, get_events_in_both_arrays,                  *)
(* get_max_events_in_both_arrays and map_cluster called on their own.  ops *)
(* holds the two arrays and what the call returned.  The functions make    *)
(* the buffers; the kernels of analysis_functions fill them and are as the *)
(* specification describes them (sections 4.1 and 4.3).  np.empty leaves   *)
(* in a buffer whatever the memory held: one of GarbageValues.             *)

SortedArrays ==
    {a \in UNION {[1..n -> 1..MaxEvent] : n \in 0..MaxArrayLen} :
        \A i \in 1..(Len(a) - 1) : a[i] <= a[i + 1]}

GarbageValues == {0, MaxEvent}

\* np.empty
NpEmpty(n, garbage) == [i \in 1..n |-> garbage]

Values(a) == {a[i] : i \in 1..Len(a)}

Count(a, v) == Cardinality({i \in 1..Len(a) : a[i] = v})

\* a kernel writes its output from the start of the buffer it was given
FillBuffer(buffer, written) ==
    [i \in 1..Len(buffer) |-> IF i <= Len(written) THEN written[i] ELSE buffer[i]]

\* analysis_functions.get_in1d_sorted: one cell for every element of ar1
GetIn1dSorted(ar1, ar2, tmp) ==
    FillBuffer(tmp, [i \in 1..Len(ar1) |-> IF ar1[i] \in Values(ar2) THEN 1 ELSE 0])

\* a buffer shaped like the second array
In1dEventsLikeAr2(ar1, ar2, garbage) ==
    GetIn1dSorted(ar1, ar2, NpEmpty(Len(ar2), garbage))

\* lines 12-20
In1dEvents(ar1, ar2, garbage) ==
    GetIn1dSorted(ar1, ar2, NpEmpty(Len(ar1), garbage))

\* analysis_functions.get_events_in_both_arrays: what it may write.  The
\* events of both arrays, ascending; an event is written once or as often
\* as the first array has it.
EventsInBothOutcomes(events_one, events_two) ==
    {w \in SortedArrays :
        /\ Values(w) = Values(events_one) \cap Values(events_two)
        /\ \A v \in Values(w) : Count(w, v) \in {1, Count(events_one, v)}}

\* the whole buffer is returned
GetEventsInBothArraysNoSlice(events_one, events_two, written, garbage) ==
    LET event_result == FillBuffer(NpEmpty(Len(events_one), garbage), written)
    IN  [result |-> event_result, count |-> Len(written),
         buffer_len |-> Len(events_one)]

\* lines 48-57, written being what the kernel writes
GetEventsInBothArrays(events_one, events_two, written, garbage) ==
    LET event_result == FillBuffer(NpEmpty(Len(events_one), garbage), written)
        count == Len(written)
    IN  [result |-> PySlice(event_result, 0, count), count |-> count,
         buffer_len |-> Len(events_one)]

\* the whole buffer is returned
UtilsGetMaxEventsInBothArraysNoSlice(events_one, events_two, garbage) ==
    LET written == GetMaxEventsInBothArrays(events_one, events_two)
        event_result ==
            FillBuffer(NpEmpty(Len(events_one) + Len(events_two), garbage), written)
    IN  [result |-> event_result, count |-> Len(written),
         buffer_len |-> Len(events_one) + Len(events_two)]

\* lines 23-32
UtilsGetMaxEventsInBothArrays(events_one, events_two, garbage) ==
    LET written == GetMaxEventsInBothArrays(events_one, events_two)
        event_result ==
            FillBuffer(NpEmpty(Len(events_one) + Len(events_two), garbage), written)
        count == Len(written)
    IN  [result |-> PySlice(event_result, 0, count), count |-> count,
         buffer_len |-> Len(events_one) + Len(events_two)]

\* np.zeros
NpZeros(n) == [i \in 1..n |-> 0]

\* analysis_functions.map_cluster writes the rows of the events the cluster
\* array has and leaves the other rows of mapped_cluster as they are
MapClusterInto(events, cluster, mapped_cluster) ==
    [i \in 1..Len(events) |->
        IF MapCluster(events, cluster)[i] # 0
        THEN MapCluster(events, cluster)[i] ELSE mapped_cluster[i]]

\* a result array that is not zeroed
UtilsMapClusterEmpty(events, cluster, garbage) ==
    MapClusterInto(events, cluster, NpEmpty(Len(events), garbage))

\* lines 35-45
UtilsMapCluster(events, cluster, garbage) ==
    MapClusterInto(events, cluster, NpZeros(Len(events)))

InitOps ==
    /\ \E ar1 \in SortedArrays, ar2 \in SortedArrays :
          ops = [pc |-> "call", ar1 |-> ar1, ar2 |-> ar2]
    /\ gen = Idle
    /\ sel = Idle
    /\ mrg = Idle
    /\ fix = Idle
    /\ hst = Idle
    /\ cor = Idle
    /\ crl = Idle

CallIn1dEvents ==
    /\ ops.pc = "call"
    /\ \E garbage \in GarbageValues :
          ops' = [pc |-> "in1d_events", ar1 |-> ops.ar1, ar2 |-> ops.ar2,
                  result |-> In1dEvents(ops.ar1, ops.ar2, garbage)]
    /\ UNCHANGED <<gen, sel, mrg, fix, hst, cor, crl>>

CallGetEventsInBothArrays ==
    /\ ops.pc = "call"
    /\ \E written \in EventsInBothOutcomes(ops.ar1, ops.ar2),
          garbage \in GarbageValues :
          LET r == GetEventsInBothArrays(ops.ar1, ops.ar2, written, garbage)
          IN  ops' = [pc |-> "get_events_in_both_arrays",
                      ar1 |-> ops.ar1, ar2 |-> ops.ar2, result |-> r.result,
                      count |-> r.count, buffer_len |-> r.buffer_len]
    /\ UNCHANGED <<gen, sel, mrg, fix, hst, cor, crl>>

CallGetMaxEventsInBothArrays ==
    /\ ops.pc = "call"
    /\ \E garbage \in GarbageValues :
          LET r == UtilsGetMaxEventsInBothArrays(ops.ar1, ops.ar2, garbage)
          IN  ops' = [pc |-> "get_max_events_in_both_arrays",
                      ar1 |-> ops.ar1, ar2 |-> ops.ar2, result |-> r.result,
                      count |-> r.count, buffer_len |-> r.buffer_len]
    /\ UNCHANGED <<gen, sel, mrg, fix, hst, cor, crl>>

\* the second array is the event_number column of the cluster array
CallMapCluster ==
    /\ ops.pc = "call"
    /\ \E garbage \in GarbageValues :
          ops' = [pc |-> "map_cluster", ar1 |-> ops.ar1, ar2 |-> ops.ar2,
                  result |-> UtilsMapCluster(ops.ar1, Read(ops.ar2, 0, Len(ops.ar2)),
                                             garbage)]
    /\ UNCHANGED <<gen, sel, mrg, fix, hst, cor, crl>>

NextOps ==
    \/ CallIn1dEvents \/ CallGetEventsInBothArrays
    \/ CallGetMaxEventsInBothArrays \/ CallMapCluster

SpecOps == InitOps /\ [][NextOps]_vars

IsAscending(a) == \A i \in 1..(Len(a) - 1) : a[i] <= a[i + 1]

\* C12: get_events_in_both_arrays returns, ascending, exactly the event
\* numbers that are in both arrays, an empty array when there are none, and
\* never more elements than the buffer sized like the first array holds.
C12_Intersection ==
    ops.pc = "get_events_in_both_arrays" =>
        /\ Values(ops.result) = Values(ops.ar1) \cap Values(ops.ar2)
        /\ IsAscending(ops.result)
        /\ Len(ops.result) = ops.count
        /\ ops.count <= ops.buffer_len
        /\ ops.buffer_len = Len(ops.ar1)

\* duplicate-heavy arrays with a common event, and a result shorter than
\* the buffer
C12_Witness ==
    /\ ops.pc = "get_events_in_both_arrays"
    /\ ops.ar1 = <<1, 2, 2>>
    /\ ops.ar2 = <<2, 2, 3>>
    /\ ops.result = <<2>>

\* C13: in1d_events returns a mask as long as the first array whose element
\* i is true iff ar1[i] occurs in the second array.
C13_Membership ==
    ops.pc = "in1d_events" =>
        /\ Len(ops.result) = Len(ops.ar1)
        /\ \A i \in 1..Len(ops.ar1) :
              (ops.result[i] # 0) <=> (\E j \in 1..Len(ops.ar2) : ops.ar2[j] = ops.ar1[i])

C13_Witness ==
    /\ ops.pc = "in1d_events"
    /\ ops.ar1 = <<1, 1, 2>>
    /\ ops.ar2 = <<2>>
    /\ ops.result = <<0, 0, 1>>

\* C14: get_max_events_in_both_arrays returns the sorted set of the event
\* numbers that are in either array: all of them, nothing else, ascending
\* without repeats, as many as the kernel counted and at most |A| + |B|.
C14_Union ==
    ops.pc = "get_max_events_in_both_arrays" =>
        /\ Values(ops.result) = Values(ops.ar1) \cup Values(ops.ar2)
        /\ \A i \in 1..(Len(ops.result) - 1) : ops.result[i] < ops.result[i + 1]
        /\ Len(ops.result) = ops.count
        /\ ops.count <= Len(ops.ar1) + Len(ops.ar2)

C14_Witness ==
    /\ ops.pc = "get_max_events_in_both_arrays"
    /\ ops.ar1 = <<1, 1, 3>>
    /\ ops.ar2 = <<2, 3>>
    /\ ops.result = <<1, 2, 3>>

\* C15: map_cluster returns one row for every reference event; row i holds
\* a cluster of the cluster array with event R[i] when there is one and is
\* the zero row otherwise.
C15_MappedRows ==
    ops.pc = "map_cluster" =>
        /\ Len(ops.result) = Len(ops.ar1)
        /\ \A i \in 1..Len(ops.ar1) :
              IF \E j \in 1..Len(ops.ar2) : ops.ar2[j] = ops.ar1[i]
              THEN /\ ops.result[i] \in 1..Len(ops.ar2)
                   /\ ops.ar2[ops.result[i]] = ops.ar1[i]
              ELSE ops.result[i] = 0

C15_Witness ==
    /\ ops.pc = "map_cluster"
    /\ ops.ar1 = <<1, 2, 3>>
    /\ ops.ar2 = <<1, 3, 3>>
    /\ ops.result = <<1, 0, 2>>


-----------------------------------------------------------------------------
(* The drift corrector: analysis_utils.fix_event_alignment makes the       *)
(* correlated flags and calls analysis_functions.fix_event_alignment,      *)
(* which is as the specification describes it (section 4.5), one event at  *)
(* a time.  Whether the positions of an event agree, and whether a search  *)
(* finds an offset, depend on the hit data: both are inputs here.  cor     *)
(* holds the automaton, the flags and, in history, what every event was.   *)

Agreements == {"match", "mismatch", "skip"}

\* flags that start cleared
InitialCorrelatedZeros(n) == [i \in 1..n |-> 0]

\* line 276: np.ones(shape=event_numbers.shape, dtype=np.uint8)
InitialCorrelated(n) == [i \in 1..n |-> 1]

\* lines 275-284: the state the routine starts in
CorrectorStart(n, n_bad_events) ==
    [pc |-> "running", n |-> n, n_bad_events |-> n_bad_events,
     status |-> "CORRELATED", bad_streak |-> 0, first_mismatch |-> 0,
     i |-> 0, correlated |-> InitialCorrelated(n), n_fixes |-> 0,
     history |-> <<>>]

\* flags first .. last cleared
ClearFlags(correlated, first, last) ==
    [j \in 1..Len(correlated) |-> IF first <= j /\ j <= last THEN 0 ELSE correlated[j]]

\* the next event while CORRELATED
CorrelatedStep(c, agreement) ==
    LET k == c.i + 1
        bad_streak == IF agreement = "match" THEN 0
                      ELSE IF agreement = "mismatch" THEN c.bad_streak + 1
                      ELSE c.bad_streak
        first_mismatch == IF agreement = "match" THEN 0
                          ELSE IF agreement = "mismatch" /\ c.bad_streak = 0 THEN k
                          ELSE c.first_mismatch
        lost == bad_streak >= c.n_bad_events
    IN  [c EXCEPT !.i = k,
                  !.history = Append(c.history, agreement),
                  !.bad_streak = bad_streak,
                  !.first_mismatch = first_mismatch,
                  !.status = IF lost THEN "SEARCHING" ELSE "CORRELATED",
                  !.correlated = IF lost THEN ClearFlags(c.correlated, first_mismatch, k)
                                 ELSE c.correlated]

\* a corrector that stops evaluating the stream after a search without result
SearchingStepGiveUp(c, found) ==
    IF found
    THEN [c EXCEPT !.i = c.i + 1, !.history = Append(c.history, "found"),
                   !.status = "CORRELATED", !.bad_streak = 0, !.first_mismatch = 0,
                   !.n_fixes = c.n_fixes + NFixes([loss |-> c.first_mismatch], c.n)]
    ELSE [c EXCEPT !.i = c.n, !.history = Append(c.history, "not_found"),
                   !.status = "ABANDONED",
                   !.correlated = ClearFlags(c.correlated, c.i + 1, c.n)]

\* the next event while SEARCHING: the search finds an offset, shifts the
\* rows from the point of loss on and the corrector is CORRELATED again, or
\* the event stays uncorrelated
SearchingStep(c, found) ==
    IF found
    THEN [c EXCEPT !.i = c.i + 1, !.history = Append(c.history, "found"),
                   !.status = "CORRELATED", !.bad_streak = 0, !.first_mismatch = 0,
                   !.n_fixes = c.n_fixes + NFixes([loss |-> c.first_mismatch], c.n)]
    ELSE [c EXCEPT !.i = c.i + 1, !.history = Append(c.history, "not_found"),
                   !.correlated = ClearFlags(c.correlated, c.i + 1, c.i + 1)]

InitCorrector ==
    /\ \E n \in 1..MaxStream, n_bad_events \in 1..MaxBadEvents :
          cor = CorrectorStart(n, n_bad_events)
    /\ gen = Idle
    /\ sel = Idle
    /\ mrg = Idle
    /\ fix = Idle
    /\ hst = Idle
    /\ ops = Idle
    /\ crl = Idle

CorrectorEvent ==
    /\ cor.pc = "running"
    /\ cor.i < cor.n
    /\ cor.status = "CORRELATED"
    /\ \E agreement \in Agreements : cor' = CorrelatedStep(cor, agreement)
    /\ UNCHANGED <<gen, sel, mrg, fix, hst, ops, crl>>

CorrectorSearch ==
    /\ cor.pc = "running"
    /\ cor.i < cor.n
    /\ cor.status = "SEARCHING"
    /\ \E found \in BOOLEAN : cor' = SearchingStep(cor, found)
    /\ UNCHANGED <<gen, sel, mrg, fix, hst, ops, crl>>

\* line 285: return correlated, n_fixes
CorrectorReturn ==
    /\ cor.pc = "running"
    /\ cor.i = cor.n
    /\ cor' = [cor EXCEPT !.pc = "returned"]
    /\ UNCHANGED <<gen, sel, mrg, fix, hst, ops, crl>>

NextCorrector == CorrectorEvent \/ CorrectorSearch \/ CorrectorReturn

SpecCorrector == InitCorrector /\ [][NextCorrector]_vars

\* the number of mismatches in a row that end at event k, events without an
\* opinion left out
RECURSIVE MismatchRun(_, _)
MismatchRun(h, k) ==
    IF k = 0 THEN 0
    ELSE IF h[k] = "mismatch" THEN 1 + MismatchRun(h, k - 1)
    ELSE IF h[k] = "skip" THEN MismatchRun(h, k - 1)
    ELSE 0

\* the first mismatch of the run that ends at event k
RECURSIVE FirstOfRun(_, _)
FirstOfRun(h, k) ==
    IF h[k] = "mismatch" /\ MismatchRun(h, k - 1) = 0 THEN k
    ELSE FirstOfRun(h, k - 1)

\* no search has been made so far
NoSearchYet(h) == \A j \in 1..Len(h) : h[j] \in Agreements

\* C17: every flag starts at 1 and the corrector CORRELATED; while it is
\* CORRELATED bad_streak is the number of mismatches in a row (a match makes
\* it 0) and stays below n_bad_events; it is SEARCHING exactly from the
\* event at which the run reaches n_bad_events, and at that event the flags
\* from the first mismatch of the run through that event are cleared; no
\* flag is cleared before.
C17_LossOfCorrelation ==
    cor.pc # "idle" =>
        LET h == cor.history
            k == Len(h)
            lost_now == k > 0 /\ h[k] = "mismatch"
                        /\ MismatchRun(h, k) = cor.n_bad_events
        IN  /\ k = 0 => /\ cor.status = "CORRELATED"
                        /\ \A j \in 1..cor.n : cor.correlated[j] = 1
            /\ cor.status = "CORRELATED" =>
                  /\ cor.bad_streak = MismatchRun(h, k)
                  /\ cor.bad_streak < cor.n_bad_events
            /\ (NoSearchYet(h) /\ cor.status = "CORRELATED") =>
                  \A j \in 1..cor.n : cor.correlated[j] = 1
            /\ (cor.status = "SEARCHING") <=>
                  (lost_now \/ (k > 0 /\ h[k] = "not_found"))
            /\ lost_now =>
                  \A j \in 1..cor.n :
                      IF FirstOfRun(h, k) <= j /\ j <= k
                      THEN cor.correlated[j] = 0
                      ELSE NoSearchYet(h) => cor.correlated[j] = 1

C17_Witness ==
    /\ cor.pc = "running"
    /\ cor.n_bad_events = 2
    /\ cor.history = <<"match", "mismatch", "skip", "mismatch">>
    /\ cor.status = "SEARCHING"
    /\ cor.correlated = <<1, 0, 0, 0, 1>>

\* C18: a search without result leaves the corrector SEARCHING and its
\* event flagged uncorrelated; the run goes on over every later event, a
\* later search that finds an offset makes the corrector CORRELATED again,
\* and the call returns the flags with no error whether or not the stream
\* was resynchronized.
C18_NeverGivesUp ==
    cor.pc # "idle" =>
        LET h == cor.history
            k == Len(h)
        IN  /\ cor.pc \in {"running", "returned"}
            /\ cor.status \in {"CORRELATED", "SEARCHING"}
            /\ cor.i = k
            /\ (k > 0 /\ h[k] = "not_found") =>
                  cor.status = "SEARCHING" /\ cor.correlated[k] = 0
            /\ (k > 0 /\ h[k] = "found") =>
                  /\ cor.status = "CORRELATED"
                  /\ cor.bad_streak = 0
                  /\ cor.correlated[k] = 1
            /\ cor.pc = "returned" => k = cor.n

\* a search without result, then one that resynchronizes
C18_Witness ==
    /\ cor.pc = "returned"
    /\ cor.n_bad_events = 1
    /\ cor.history = <<"mismatch", "not_found", "not_found", "found", "match">>
    /\ cor.correlated = <<0, 0, 0, 1, 1>>
    /\ cor.status = "CORRELATED"

-----------------------------------------------------------------------------
(* More claims about data_aligned_at_events *)

\* C19: the index yielded with a chunk is the table index right after the
\* last table row of that chunk, on every path.
C19_IndexAfterChunk ==
    gen.pc # "idle" =>
        \A k \in 1..Len(gen.out) :
            LET chunk == gen.out[k].chunk
            IN  Len(chunk) > 0 => gen.out[k].index = chunk[Len(chunk)].row + 1

\* data_aligned_at_events called with start and stop indices and with any
\* chunk_size from 0 on
IndexedTables == {t \in SortedTables : Len(t) <= MaxIndexedRows}

TableIndices(t) == {None} \cup {Some(i) : i \in 0..Len(t)}

InitReaderIndexed ==
    /\ \E t \in IndexedTables, se \in EventBounds, te \in EventBounds,
          su \in BOOLEAN, cs \in 0..MaxIndexedRows :
          \E st \in TableIndices(t), sp \in TableIndices(t) :
              gen = GenInit(t, se, te, st, sp, su, cs)
    /\ sel = Idle
    /\ mrg = Idle
    /\ fix = Idle
    /\ hst = Idle
    /\ ops = Idle
    /\ cor = Idle
    /\ crl = Idle

SpecReaderIndexed == InitReaderIndexed /\ [][NextReader]_vars

\* C20: every pass of the reading loop ends the generator or moves
\* start_index on by at least 1, never past the end of the table, so the
\* generator ends after at most as many passes, and yields, as the table
\* has rows.
C20_Terminates ==
    [][gen.pc = "loop" =>
          /\ gen'.pc = "done" \/ (/\ gen'.start_index >= gen.start_index + 1
                                  /\ gen'.start_index <= Len(gen.table))
          /\ Len(gen'.out) <= Len(gen.out) + 1
          /\ Len(gen'.out) <= Len(gen.table)]_vars

\* a run with a start index and chunk_size 0 that has yielded twice and ended
C20_Witness ==
    /\ gen.pc = "done"
    /\ gen.chunk_size = 0
    /\ gen.start = Some(1)
    /\ Len(gen.out) = 2

-----------------------------------------------------------------------------
(* More claims about dut_alignment.fix_event_alignment *)

\* the columns the alignment routine is never asked to change
ReferenceColumns ==
    {PlainColumn("event_number"), PlainColumn("n_tracks"),
     DutColumn("column_dut", 0), DutColumn("row_dut", 0), DutColumn("charge_dut", 0)}

\* C21: the written table has, on every row, the input table's event_number,
\* n_tracks, column_dut_0, row_dut_0 and charge_dut_0, whatever the number of
\* DUTs of the input.
C21_ReferenceColumnsKept ==
    fix.pc = "written" =>
        \A name \in ReferenceColumns :
            fix.correction_out[name] = fix.tracklets[name]

-----------------------------------------------------------------------------
(* Claims about the rows data_aligned_at_events delivers and the index it  *)
(* yields                                                                   *)

\* how often the table row with index r is in the yielded chunks
TimesDelivered(out, r) ==
    LET rows == ConcatChunks(out)
    IN  Cardinality({k \in 1..Len(rows) : rows[k].row = r})

\* the first table index the call was asked to read
StartOf(g) == IF g.start = None THEN 0 ELSE g.start[1]

\* the table index the call was asked to stop before
StopOf(g) == IF g.stop = None THEN Len(g.table) ELSE g.stop[1]

\* the event number of table row r lies in [start_event_number, stop_event_number)
EventInRange(g, r) ==
    /\ g.start_event_number = None \/ g.table[r + 1] >= g.start_event_number[1]
    /\ g.stop_event_number = None \/ g.table[r + 1] < g.stop_event_number[1]

\* C22: in a call with event bounds, every table row from start on (and
\* before stop, when a stop index is given) whose
\* event number is in [start_event_number, stop_event_number) is delivered
\* exactly once.
C22_InRangeRowsOnce ==
    (ReaderDone /\ ~NoBounds) =>
        \A r \in StartOf(gen)..(StopOf(gen) - 1) :
            EventInRange(gen, r) => TimesDelivered(gen.out, r) = 1

\* a run that skipped or filtered row 0 and delivered the in-range row 1
C22_Witness ==
    /\ ReaderDone
    /\ gen.table = <<1, 2, 3>>
    /\ gen.start_event_number = Some(2)
    /\ gen.stop_event_number = Some(3)
    /\ gen.start = Some(0)
    /\ gen.chunk_size = 1
    /\ ~gen.try_speedup
    /\ TimesDelivered(gen.out, 0) = 0
    /\ TimesDelivered(gen.out, 1) = 1

\* table row r is in one of the first k yielded chunks
DeliveredBy(out, k, r) ==
    \E j \in 1..k : \E m \in 1..Len(out[j].chunk) : out[j].chunk[m].row = r

\* C23: the index yielded with a chunk is at most the table index right
\* after the last row of the chunk, and every table row from the call's
\* start up to that index has been yielded by then or has an event number
\* below start_event_number.
C23_IndexSkipsNothing ==
    gen.pc \in {"loop", "done"} =>
        \A k \in 1..Len(gen.out) :
            LET chunk == gen.out[k].chunk
                index == gen.out[k].index
            IN  /\ Len(chunk) > 0 => index <= chunk[Len(chunk)].row + 1
                /\ \A r \in StartOf(gen)..(index - 1) :
                      \/ DeliveredBy(gen.out, k, r)
                      \/ /\ gen.start_event_number # None
                         /\ gen.table[r + 1] < gen.start_event_number[1]

\* a filtered chunk whose index is below the index after its last row; the
\* row before it has an event number below start_event_number
C23_Witness ==
    /\ ReaderDone
    /\ gen.table = <<1, 2, 3>>
    /\ gen.start_event_number = Some(2)
    /\ gen.stop_event_number = None
    /\ gen.start = Some(0)
    /\ gen.stop = None
    /\ gen.chunk_size = 2
    /\ ~gen.try_speedup
    /\ Len(gen.out) = 2
    /\ gen.out[1].index = 1

\* C24: with a stop index below the number of table rows and no event
\* bounds, no yielded chunk holds a row with a table index of stop or more.
C24_NothingPastStop ==
    (gen.pc \in {"loop", "done"} /\ NoBounds /\ gen.stop # None
     /\ StopOf(gen) < Len(gen.table)) =>
        \A r \in StopOf(gen)..(Len(gen.table) - 1) : TimesDelivered(gen.out, r) = 0

\* C25: the warning about a buffer too small for an event is logged only
\* when the table has an event with more rows than chunk_size.
C25_WarningOnlyWhenOversized ==
    (gen.pc \in {"loop", "done"} /\ gen.warnings > 0) =>
        \E r \in 1..Len(gen.table) : RunLength(gen.table, gen.table[r]) > gen.chunk_size

(***************************************************************************)
(* correlate_hits (dut_alignment.py, lines 19-72): the hit file of the     *)
(* reference (index 0) gives first_reference and the reference extents,    *)
(* every further hit file is merged with it on event_number and filled     *)
(* into a column and a row correlation histogram.                          *)
(***************************************************************************)

\* the event numbers of the hits
HitEvents == {1, 2}

\* the pixels that are hit, coordinates counted from 1: the two diagonals
\* of the sensor
Pixels ==
    {p \in [column : 1..MaxBins, row : 1..MaxBins] :
        p.row \in {p.column, MaxBins + 1 - p.column}}

HitValues ==
    {[event_number |-> e, column |-> p.column, row |-> p.row] :
        e \in HitEvents, p \in Pixels}

\* the order of two hits in a hit file: by event, and inside an event by
\* column and row (the order inside an event changes the order of the merged
\* rows and nothing else, so one order is modelled)
HitBefore(a, b) ==
    \/ a.event_number < b.event_number
    \/ a.event_number = b.event_number /\ a.column < b.column
    \/ a.event_number = b.event_number /\ a.column = b.column /\ a.row <= b.row

\* line 54: the rows in_file_h5.root.Hits[event_start:event_end:fraction] of
\* a hit file; a slice of a table in event order is a table in event order
HitTables ==
    {t \in UNION {[1..n -> HitValues] : n \in 0..MaxHits} :
        \A i \in 1..(Len(t) - 1) : HitBefore(t[i], t[i + 1])}

\* np.amax of a column that is not empty
Amax(table, name) ==
    CHOOSE m \in {table[i][name] : i \in 1..Len(table)} :
        \A i \in 1..Len(table) : table[i][name] <= m

\* line 56: the reference hits as a data frame
FirstReference(hit_table) ==
    [i \in 1..Len(hit_table) |->
        [event_number |-> hit_table[i].event_number,
         column_ref |-> hit_table[i].column, row_ref |-> hit_table[i].row]]

\* line 60: the hits of the DUT as a data frame
DutFrame(hit_table) ==
    [i \in 1..Len(hit_table) |->
        [event_number |-> hit_table[i].event_number,
         column_dut |-> hit_table[i].column, row_dut |-> hit_table[i].row]]

\* line 61: first_reference.merge(dut, how='left', on='event_number'); a
\* reference hit without a DUT hit of its event keeps a row, with NaN (None)
\* in the columns of the DUT
RECURSIVE MergeLeft(_, _)
MergeLeft(first_reference, dut) ==
    IF first_reference = <<>> THEN <<>>
    ELSE LET ref == Head(first_reference)
             matches == SelectSeq(dut, LAMBDA d : d.event_number = ref.event_number)
             rows == IF matches = <<>>
                     THEN << [event_number |-> ref.event_number,
                              column_ref |-> Some(ref.column_ref),
                              row_ref |-> Some(ref.row_ref),
                              column_dut |-> None, row_dut |-> None] >>
                     ELSE [i \in 1..Len(matches) |->
                              [event_number |-> ref.event_number,
                               column_ref |-> Some(ref.column_ref),
                               row_ref |-> Some(ref.row_ref),
                               column_dut |-> Some(matches[i].column_dut),
                               row_dut |-> Some(matches[i].row_dut)]]
         IN  rows \o MergeLeft(Tail(first_reference), dut)

\* line 62: df.dropna(inplace=True)
Dropna(df) ==
    SelectSeq(df, LAMBDA r : None \notin {r.column_ref, r.row_ref,
                                          r.column_dut, r.row_dut})

\* df[name] - 1, as the coordinate handed to hist_2d_index
MinusOne(df, name) == [i \in 1..Len(df) |-> Wide(0, df[i][name][1] - 1)]

\* a call that takes the extent of the reference first
ColumnCallReferenceFirst(df, n_col_dut, n_col_reference) ==
    [x |-> MinusOne(df, "column_dut"), y |-> MinusOne(df, "column_ref"),
     shape |-> <<n_col_reference, n_col_dut>>]

\* line 65: the arguments of the call that fills the column correlation
ColumnCall(df, n_col_dut, n_col_reference) ==
    [x |-> MinusOne(df, "column_dut"), y |-> MinusOne(df, "column_ref"),
     shape |-> <<n_col_dut, n_col_reference>>]

\* line 66: the arguments of the call that fills the row correlation
RowCall(df, n_row_dut, n_row_reference) ==
    [x |-> MinusOne(df, "row_dut"), y |-> MinusOne(df, "row_ref"),
     shape |-> <<n_row_dut, n_row_reference>>]

\* the coordinate pairs of a call, in the order the kernel reads them
Tuples(call) == [i \in 1..Len(call.x) |-> <<call.x[i], call.y[i]>>]

\* hist_2d_index on the arguments of a call: the histogram, when every pair
\* addresses the result buffer; a pair outside it is a write to other memory
RECURSIVE HistFill(_, _)
HistFill(h, tuples) ==
    IF tuples = <<>> THEN {[h EXCEPT !.pc = "returned"]}
    ELSE IF InsideBuffer(h, Head(tuples))
         THEN HistFill(HistCounted(h, Head(tuples)), Tail(tuples))
         ELSE {[h EXCEPT !.pc = "crashed"]}
              \cup HistFill([h EXCEPT !.memory_corrupted = TRUE], Tail(tuples))

Hist2dIndexOutcomes(call) ==
    HistFill(HistEnter([shape |-> call.shape], 2), Tuples(call))

\* the hit files handed over: the reference and one more DUT; a pass of the
\* loop for a DUT uses first_reference and the hits of that DUT only
InputHitsFiles == HitTables \X HitTables

InitCorrelate ==
    /\ \E input_hits_files \in InputHitsFiles :
          crl = [pc |-> "loop", input_hits_files |-> input_hits_files, index |-> 0]
    /\ gen = Idle
    /\ sel = Idle
    /\ mrg = Idle
    /\ fix = Idle
    /\ hst = Idle
    /\ ops = Idle
    /\ cor = Idle

\* lines 55-57: the pass of the loop for the reference, index 0; np.amax of
\* an empty column raises ValueError
CorrelateReference ==
    /\ crl.pc = "loop"
    /\ crl.index = 0
    /\ LET hit_table == crl.input_hits_files[1]
       IN  crl' = IF hit_table = <<>>
                  THEN [pc |-> "ValueError", input_hits_files |-> crl.input_hits_files,
                        index |-> 0]
                  ELSE [pc |-> "loop", input_hits_files |-> crl.input_hits_files,
                        index |-> 1,
                        first_reference |-> FirstReference(hit_table),
                        n_col_reference |-> Amax(hit_table, "column"),
                        n_row_reference |-> Amax(hit_table, "row"),
                        df |-> <<>>,
                        col_call |-> None, row_call |-> None,
                        col_corr |-> None, row_corr |-> None]
    /\ UNCHANGED <<gen, sel, mrg, fix, hst, ops, cor>>

\* lines 58-72: the pass of the loop for the next hit file
CorrelateDut ==
    /\ crl.pc = "loop"
    /\ crl.index > 0
    /\ crl.index < Len(crl.input_hits_files)
    /\ LET hit_table == crl.input_hits_files[crl.index + 1]
           df == Dropna(MergeLeft(crl.first_reference, DutFrame(hit_table)))
       IN  IF hit_table = <<>>
           THEN crl' = [pc |-> "ValueError", input_hits_files |-> crl.input_hits_files,
                        index |-> crl.index]
           ELSE LET n_col_dut == Amax(hit_table, "column")
                    n_row_dut == Amax(hit_table, "row")
                    col_call == ColumnCall(df, n_col_dut, crl.n_col_reference)
                    row_call == RowCall(df, n_row_dut, crl.n_row_reference)
                IN  \E col_corr \in Hist2dIndexOutcomes(col_call) :
                        IF col_corr.pc # "returned"
                        THEN crl' = [crl EXCEPT !.pc = "crashed", !.df = df,
                                        !.col_call = Some(col_call),
                                        !.row_call = None,
                                        !.col_corr = Some(col_corr),
                                        !.row_corr = None]
                        ELSE \E row_corr \in Hist2dIndexOutcomes(row_call) :
                                crl' = [crl EXCEPT
                                    !.pc = IF row_corr.pc = "returned"
                                           THEN "loop" ELSE "crashed",
                                    !.index = IF row_corr.pc = "returned"
                                              THEN crl.index + 1 ELSE crl.index,
                                    !.df = df,
                                    !.col_call = Some(col_call),
                                    !.row_call = Some(row_call),
                                    !.col_corr = Some(col_corr),
                                    !.row_corr = Some(row_corr)]
    /\ UNCHANGED <<gen, sel, mrg, fix, hst, ops, cor>>

\* the loop over the hit files is through
CorrelateReturn ==
    /\ crl.pc = "loop"
    /\ crl.index = Len(crl.input_hits_files)
    /\ crl' = [crl EXCEPT !.pc = "done"]
    /\ UNCHANGED <<gen, sel, mrg, fix, hst, ops, cor>>

NextCorrelate == CorrelateReference \/ CorrelateDut \/ CorrelateReturn

SpecCorrelate == InitCorrelate /\ [][NextCorrelate]_vars

\* the calls of hist_2d_index made in the last pass of the loop
CorrelateCalls ==
    IF crl.pc \in {"loop", "crashed", "done"} /\ crl.index > 0
    THEN {c[1] : c \in {crl.col_call, crl.row_call} \ {None}}
    ELSE {}

\* C26: in correlate_hits every coordinate pair handed to hist_2d_index lies
\* inside the shape handed over with it: 0 <= column_dut - 1 < n_col_dut and
\* 0 <= column_ref - 1 < n_col_reference for every row of the merged frame,
\* and the same for the rows, when every column and row of the hits is at
\* least 1.
C26_PairsInsideShape ==
    \A call \in CorrelateCalls :
        /\ Len(call.shape) = 2
        /\ \A i \in 1..Len(call.x) :
              ~OutOfRange(<<call.x[i], call.y[i]>>, call.shape)

\* a DUT with a smaller extent than the reference in columns and a larger one
\* in rows, two hits of one event merged with one reference hit, one
\* reference hit without a DUT hit
C26_Witness ==
    /\ crl.pc = "done"
    /\ Len(crl.first_reference) = 2
    /\ Len(crl.input_hits_files[2]) = 2
    /\ Len(crl.df) = 2
    /\ crl.row_call # None
    /\ crl.col_call[1].shape[1] < crl.col_call[1].shape[2]
    /\ crl.row_call[1].shape[1] > crl.row_call[1].shape[2]
    /\ crl.row_call[1].x[1] # crl.row_call[1].x[2]
    /\ crl.row_corr[1].counted = 2

=============================================================================
